---------------------------- MODULE Spec2Model ----------------------------
(***************************************************************************)
(* Model of crtk.utils (src/src/crtk/utils.py): the synchronisation layer  *)
(* that turns asynchronous ROS subscriptions into blocking queries.        *)
(*                                                                         *)
(*  - the freshness query __wait_for_valid_data on the setpoint_js channel *)
(*    (all telemetry channels share this code), run by concurrent callers  *)
(*    against the subscription callback;                                   *)
(*  - the operating-state machine: __operating_state_cb, enable, disable,  *)
(*    home, unhome, state_command, wait_for_operating_state,               *)
(*    wait_for_homed, is_busy, wait_for_busy, operating_state and the      *)
(*    shutdown hook; the moves, which hand out a handle on that machine;   *)
(*  - the registry: the add_* operations, remove_all and __del__;           *)
(*  - the cartesian pose channels measured_cp and setpoint_cp with the      *)
(*    accessor measured_cp.                                                 *)
(*                                                                         *)
(* Time is counted in units of the default expected_interval (0.02 s).     *)
(* Statements of a thread take no time: the clock advances only when every *)
(* thread is parked in Event.wait or between calls.                        *)
(*                                                                         *)
(* threading.Event is modelled by its flag plus the set of parked waiters: *)
(* wait() returns True at once when the flag is set, otherwise parks;      *)
(* set() raises the flag and wakes every parked waiter, which then returns *)
(* True even if the flag is cleared again before it runs; a parked waiter  *)
(* whose timeout has elapsed returns False.                                *)
(***************************************************************************)
EXTENDS Integers, Sequences, FiniteSets, TLC

\* ---- bounds of the model
MaxTime == 2        \* the clock runs from 0 to MaxTime
MaxSeq == 2         \* samples delivered on a channel
MaxArg == 1         \* largest age / wait / timeout argument a caller passes
MaxOsSeq == 2       \* operating-state records delivered
MaxRemoves == 2     \* explicit calls of remove_all
MaxCpSeq == 2       \* samples delivered on a cartesian pose channel

\* expected_interval of utils.__init__, in model time units
ExpectedInterval == 1

Callers == {"a", "b"}

VARIABLES
    now,                 \* the node's clock
    setpoint_js_data,    \* latest sample of the channel: [seq, stamp]
    setpoint_js_event,   \* flag of the channel's threading.Event
    js_cb,               \* position of __setpoint_js_cb: "idle" or "wrote"
    q,                   \* per caller: the telemetry query in progress
    operating_state_data,    \* latest OperatingState record
    operating_state_event,   \* flag of the operating-state threading.Event
    os_cb,               \* position of __operating_state_cb: "idle" or "wrote"
    ros,                 \* the rclpy context: "up", "down" (rclpy.ok() is
                         \* False), "notified" (the on_shutdown hooks have run)
    w,                   \* per caller: the operating-state call in progress
    reg,                 \* the utils object's registry and what it did to the node
    measured_cp_data,    \* latest sample of measured_cp: [seq, pose, stamp]
    measured_cp_event,   \* flag of its threading.Event
    cp_cb,               \* position of __measured_cp_cb: "idle" or "wrote"
    setpoint_cp_data,    \* <<>> while add_setpoint_cp has not been called,
                         \* else <<latest sample of setpoint_cp>>
    setpoint_cp_event,   \* flag of the setpoint_cp threading.Event
    m                    \* the measured_cp query in progress

fvars == <<setpoint_js_data, setpoint_js_event, js_cb, q>>
svars == <<operating_state_data, operating_state_event, os_cb, ros, w>>
cvars == <<measured_cp_data, measured_cp_event, cp_cb, setpoint_cp_data,
           setpoint_cp_event, m>>
vars == <<now, setpoint_js_data, setpoint_js_event, js_cb, q,
          operating_state_data, operating_state_event, os_cb, ros, w, reg,
          measured_cp_data, measured_cp_event, cp_cb, setpoint_cp_data,
          setpoint_cp_event, m>>

\* None is the empty tuple, a given number v is <<v>>
Args == {<<>>} \cup {<<v>> : v \in 0..MaxArg}

\* sensor_msgs.msg.JointState(): the default-constructed record, stamp 0
DefaultSample == [seq |-> 0, stamp |-> 0]

\* age = None / wait = None default to expected_interval
OrExpectedInterval(arg) == IF arg = <<>> THEN ExpectedInterval ELSE arg[1]

\* "check if user accepts cached data"
CacheAcceptsNoZeroTest(age, stamp, t) == (t - stamp) <= age
CacheAcceptsStrict(age, stamp, t) == age # 0 /\ (t - stamp) < age
CacheAccepts(age, stamp, t) == age # 0 /\ (t - stamp) <= age

\* event.clear() on entry of __wait_for_valid_data
ClearOnEntryKeeps(flag) == flag
ClearOnEntry(flag) == FALSE

\* "if wait != 0.0: if event.wait(wait)"
WillWaitNever(wait) == FALSE
WillWait(wait) == wait # 0

\* Event.wait(timeout) gives up once timeout has elapsed since it parked
WaitExpired(tpark, timeout, t) == t >= tpark + timeout

\* number of completed runs of __setpoint_js_cb
js_delivered == IF js_cb = "wrote" THEN setpoint_js_data.seq - 1 ELSE setpoint_js_data.seq

\* A caller's record.  pc, data (the record bound to the parameter data, kept
\* until its age is tested), wait and t0 (the time event.wait was entered,
\* kept while parked) drive the call.  The other fields only remember what the call did:
\*   tc     the time of the call
\*   age    the effective age tolerance      fresh  data's age was <= age
\*   cap    seq of the record bound to data  began  js_delivered at the call
\*   blocked  the call parked in event.wait
\*   upd    a callback completed during the call
\*   updw   a callback completed after the call's own event.clear() and
\*          before its wait budget elapsed
\*   res, ret   the outcome, and the record the accessor read
IdleQ == [pc |-> "idle", data |-> DefaultSample, wait |-> 0, t0 |-> 0,
          tc |-> 0, age |-> 0, fresh |-> FALSE, cap |-> 0, began |-> 0,
          blocked |-> FALSE, upd |-> FALSE, updw |-> FALSE,
          res |-> "none", ret |-> DefaultSample]

\* Every caller runs the same code; what a call did is remembered for the
\* caller under observation only.
Observed == "a"

Track(c, r) ==
    IF c = Observed THEN r
    ELSE [IdleQ EXCEPT !.pc = r.pc, !.wait = r.wait, !.t0 = r.t0,
                       !.data = [seq |-> 0, stamp |-> r.data.stamp]]

FreshInit ==
    /\ setpoint_js_data = DefaultSample
    /\ setpoint_js_event = FALSE
    /\ js_cb = "idle"
    /\ q = [c \in Callers |-> IdleQ]

\* The record of a finished call is local to its caller: the return is
\* taken before any other step of the system.
FreshReturned == \A c \in Callers : q[c].pc # "done"

\* ---- the subscription callback __setpoint_js_cb, statement by statement
\* self.__setpoint_js_data = msg
setpoint_js_cb_write ==
    /\ FreshReturned
    /\ js_cb = "idle"
    /\ ros = "up"
    /\ setpoint_js_data.seq < MaxSeq
    /\ \E stamp \in setpoint_js_data.stamp..now :
          setpoint_js_data' = [seq |-> setpoint_js_data.seq + 1, stamp |-> stamp]
    /\ js_cb' = "wrote"
    /\ UNCHANGED <<cvars, now, reg, svars, setpoint_js_event, q>>

\* self.__setpoint_js_event.set(): raises the flag and wakes the parked waiters
setpoint_js_cb_set ==
    /\ FreshReturned
    /\ js_cb = "wrote"
    /\ js_cb' = "idle"
    /\ setpoint_js_event' = TRUE
    /\ q' = [c \in Callers |->
               LET r == q[c]
                   r1 == IF r.pc \in {"called", "waiting", "parked", "read"}
                         THEN [r EXCEPT !.upd = TRUE] ELSE r
                   r2 == IF r.pc \in {"waiting", "parked"} /\ now < r.tc + r.wait
                         THEN [r1 EXCEPT !.updw = TRUE] ELSE r1
                   r3 == IF r.pc = "parked" THEN [r2 EXCEPT !.pc = "read", !.t0 = 0]
                         ELSE r2
               IN Track(c, r3)]
    /\ UNCHANGED <<cvars, now, reg, svars, setpoint_js_data>>

\* ---- setpoint_jp(age, wait), statement by statement
\* the call: the arguments of __wait_for_valid_data are evaluated, which
\* binds data to the record the channel holds now
setpoint_jp_call(c) ==
    /\ FreshReturned
    /\ q[c].pc = "idle"
    /\ q' = [q EXCEPT ![c] = Track(c, [IdleQ EXCEPT !.pc = "called",
                                          !.data = setpoint_js_data,
                                          !.tc = now,
                                          !.cap = setpoint_js_data.seq,
                                          !.began = js_delivered])]
    /\ UNCHANGED <<cvars, now, reg, svars, setpoint_js_data, setpoint_js_event, js_cb>>

\* event.clear(), the defaults, and the test of the cached record's age
\* (age and wait are drawn here, where the call first reads them)
wait_for_valid_data_check(c) ==
    /\ FreshReturned
    /\ q[c].pc = "called"
    /\ setpoint_js_event' = ClearOnEntry(setpoint_js_event)
    /\ \E age_arg \in Args, wait_arg \in Args :
         LET age == OrExpectedInterval(age_arg)
             wait == OrExpectedInterval(wait_arg)
             r == [q[c] EXCEPT !.age = age, !.wait = wait, !.data = DefaultSample,
                               !.fresh = (now - q[c].data.stamp) <= age]
         IN q' = [q EXCEPT ![c] = Track(c,
                    IF CacheAccepts(age, q[c].data.stamp, now)
                    THEN [r EXCEPT !.pc = "read"]
                    ELSE IF WillWait(wait)
                    THEN [r EXCEPT !.pc = "waiting"]
                    ELSE [r EXCEPT !.pc = "done", !.res = "raise"])]
    /\ UNCHANGED <<cvars, now, reg, svars, setpoint_js_data, js_cb>>

\* event.wait(wait) is entered: True at once when the flag is set, else park
wait_for_valid_data_wait(c) ==
    /\ FreshReturned
    /\ q[c].pc = "waiting"
    /\ q' = [q EXCEPT ![c] = Track(c,
               IF setpoint_js_event
               THEN [@ EXCEPT !.pc = "read"]
               ELSE [@ EXCEPT !.pc = "parked", !.blocked = TRUE, !.t0 = now])]
    /\ UNCHANGED <<cvars, now, reg, svars, setpoint_js_data, setpoint_js_event, js_cb>>

\* event.wait(wait) times out: return False, the accessor raises RuntimeWarning
wait_for_valid_data_timeout(c) ==
    /\ FreshReturned
    /\ q[c].pc = "parked"
    /\ WaitExpired(q[c].t0, q[c].wait, now)
    /\ q' = [q EXCEPT ![c] = Track(c, [@ EXCEPT !.pc = "done", !.res = "raise"])]
    /\ UNCHANGED <<cvars, now, reg, svars, setpoint_js_data, setpoint_js_event, js_cb>>

\* __wait_for_valid_data returned True: the accessor reads self.__setpoint_js_data
setpoint_jp_read(c) ==
    /\ FreshReturned
    /\ q[c].pc = "read"
    /\ q' = [q EXCEPT ![c] = Track(c, [@ EXCEPT !.pc = "done", !.res = "ok",
                                                 !.ret = setpoint_js_data])]
    /\ UNCHANGED <<cvars, now, reg, svars, setpoint_js_data, setpoint_js_event, js_cb>>

\* the caller goes on to its next call
setpoint_jp_return(c) ==
    /\ q[c].pc = "done"
    /\ q' = [q EXCEPT ![c] = IdleQ]
    /\ UNCHANGED <<cvars, now, reg, svars, setpoint_js_data, setpoint_js_event, js_cb>>

\* ======================================================================
\* The operating-state machine
\* ======================================================================

\* crtk_msgs.msg.OperatingState(): the default-constructed record; stamp is
\* header.stamp
DefaultOperatingState ==
    [seq |-> 0, stamp |-> 0, state |-> "", is_homed |-> FALSE, is_busy |-> FALSE]

PowerStates == {"ENABLED", "DISABLED"}

\* timeout arguments of enable, disable, home, unhome, wait_for_operating_state,
\* wait_for_busy; a negative timeout means "do not wait"
Timeouts == -1..MaxArg

\* __is_enabled / __is_disabled: the test that opens __enable / __disable
InPowerState(rec, target) == rec.state = target

\* __is_homed: the test that opens __home (target TRUE) / __unhome (FALSE)
InHomedState(rec, target) == rec.is_homed = target

\* "if self.__operating_state_data.state == expected_state:", the test a
\* woken wait_for_operating_state makes before it returns True
StateIsExpectedOnAnyWake(rec, expected) == TRUE
StateIsExpected(rec, expected) == rec.state = expected

\* "... and (not self.__operating_state_data.is_busy)", the second half of
\* the test a woken wait_for_homed makes before it returns True
IdleNotRequired(rec) == TRUE
IsIdle(rec) == ~rec.is_busy

\* "if timeout < 0.0: return False", the first statement of every wait_for_*
NotWaitingNever(timeout) == FALSE
NotWaiting(timeout) == timeout < 0

\* "if not rclpy.ok(): return False", as a test of the context
RclpyOkAlways(context) == TRUE
RclpyOk(context) == context = "up"

\* "rclpy.time.Time.from_msg(...header.stamp) > start_time" of __is_busy and
\* "...header.stamp > start_time" of __wait_for_busy
StampAfterOrAt(stamp, start_time) == stamp >= start_time
StampAfter(stamp, start_time) == stamp > start_time

\* "if self.__operating_state_data.is_busy == is_busy:", the test a woken
\* wait_for_busy makes before it returns True
BusyIsExpected(rec, busy) == rec.is_busy = busy

\* the statements of __move_jp / __move_jr / __move_cp after the message is
\* built: the handle is made, then the goal is published
MoveStepsPublishFirst == <<"publish", "handle">>
MoveSteps == <<"handle", "publish">>

\* "return self.__wait_for_...(...)": the recursive call that follows a check
\* that failed re-enters the wait_for_* it is made in
RecursiveCallFromCommand(op) == "cmd"
RecursiveCall(op) ==
    IF op \in {"home", "unhome"} THEN "wh_entry"
    ELSE IF op = "wait_for_busy" THEN "wb_entry"
    ELSE "wf_entry"

\* "timeout = (timeout - elapsed_time)", elapsed_time = now() - start_time:
\* the timeout the recursive call is given
RemainingRestarts(timeout, start, t) == timeout
Remaining(timeout, start, t) == timeout - (t - start)

\* self.__state_command_publisher.publish(msg), counted per call
PublishNothing(n) == n
Publish(n) == n + 1

\* the predicate a waiting call is after
Satisfies(r, rec) ==
    IF r.op \in {"wait_for_operating_state", "enable", "disable"}
    THEN rec.state = r.expected_state
    ELSE IF r.op \in {"home", "unhome"}
    THEN rec.is_homed = r.expected_homed /\ ~rec.is_busy
    ELSE IF r.op = "wait_for_busy"
    THEN rec.is_busy = r.is_busy /\ rec.stamp > r.start_time
    ELSE FALSE

\* A caller's record.  op, pc, expected_state, expected_homed, is_busy,
\* start_time (the parameters of is_busy / wait_for_busy, and the start_time
\* of the handle a move makes), timeout (the parameter of the current
\* wait_for_* invocation), start (its start_time / _start_time) and in_time
\* drive the call.  The other fields only remember what it did:
\*   handle   what the handle made by a move refers to
\*   at_shutdown  where the call was when rclpy shut down: "none" (not begun),
\*            "parked" (in event.wait) or "running"
\*   T, tc    the timeout the call was given, and when it was made
\*   first    the call read the default-constructed record
\*   newer    a callback completed after the call entered wait_for_*
\*   seen     the call has read the record the channel holds now
\*   short    the opening test found the record in the target state
\*   pubs     tokens published on state_command by the call
\*   blocked  the call parked in event.wait
\*   matched  a record satisfying the predicate was delivered while the call
\*            was waiting with time left, and none that does not has been
\*            written since
\*   res, val the outcome; for a wait_for_operating_state that returns True
\*            val is the power state it read after the wake-up
\*   ts       the stamp operating_state(extra) returns with val
\*   pending  the event was set when wait_for_operating_state / wait_for_busy
\*            was called, and no callback has stored a record since
IdleW == [pc |-> "idle", op |-> "none", expected_state |-> "",
          expected_homed |-> FALSE, is_busy |-> FALSE, start_time |-> 0,
          timeout |-> 0, start |-> 0, in_time |-> FALSE, handle |-> "none",
          at_shutdown |-> "none",
          T |-> 0, tc |-> 0, first |-> FALSE, newer |-> FALSE, seen |-> FALSE,
          short |-> FALSE,
          pubs |-> 0, blocked |-> FALSE, matched |-> FALSE,
          res |-> "none", val |-> "", ts |-> 0, pending |-> FALSE]

TrackW(c, r) ==
    IF c = Observed THEN r
    ELSE [IdleW EXCEPT !.pc = r.pc, !.op = r.op,
                       !.expected_state = r.expected_state,
                       !.expected_homed = r.expected_homed,
                       !.is_busy = r.is_busy, !.start_time = r.start_time,
                       !.timeout = r.timeout, !.start = r.start,
                       !.in_time = r.in_time]

StateInit ==
    /\ operating_state_data = DefaultOperatingState
    /\ operating_state_event = FALSE
    /\ os_cb = "idle"
    /\ ros = "up"
    /\ w = [c \in Callers |-> IdleW]

StateReturned == \A c \in Callers : w[c].pc # "done"

\* pcs of a call that is inside wait_for_operating_state / wait_for_homed
WaitingPcs == {"wf_entry", "wh_entry", "wh_wait", "parked", "ok",
               "wf_state", "wf_clear", "wh_homed", "wh_busy"}

\* pcs of a call of wait_for_busy that has cleared the event
BusyWaitingPcs == {"wb_wait", "parked", "ok", "wb_busy"}

Waiting(r) ==
    IF r.op = "wait_for_busy" THEN r.pc \in BusyWaitingPcs ELSE r.pc \in WaitingPcs

\* set() on the operating-state event: wake the parked callers; rec is the
\* record a completing callback delivered, or <<>> for the shutdown hook
Woken(c, rec) ==
    LET r == w[c]
        sat == Satisfies(r, rec[1])
        r0 == IF rec # <<>> /\ Waiting(r)
              THEN [r EXCEPT !.newer = TRUE] ELSE r
        r1 == IF rec # <<>> /\ r.pc # "idle"
              THEN [r0 EXCEPT !.matched =
                       IF sat THEN (r.matched \/ (Waiting(r) /\ now < r.tc + r.T))
                       ELSE FALSE]
              ELSE r0
    IN TrackW(c, IF r.pc = "parked"
                 THEN [r1 EXCEPT !.pc = "ok", !.in_time = TRUE]
                 ELSE r1)

\* ---- __operating_state_cb, statement by statement.  The device stamps a
\* record when it publishes it: stamps do not decrease and the record is
\* delivered at its stamp or later.  read is the set of fields the operations
\* of the specification read; the others are left at their default.
\* self.__operating_state_data = msg
operating_state_cb_write(read) ==
    /\ StateReturned
    /\ os_cb = "idle"
    /\ ros = "up"
    /\ operating_state_data.seq < MaxOsSeq
    /\ \E st \in (IF "state" \in read THEN PowerStates ELSE {""}),
          homed \in (IF "is_homed" \in read THEN BOOLEAN ELSE {FALSE}),
          busy \in BOOLEAN,
          stamp \in (IF "stamp" \in read THEN operating_state_data.stamp..now ELSE {0}) :
          operating_state_data' =
              [seq |-> operating_state_data.seq + 1, stamp |-> stamp, state |-> st,
               is_homed |-> homed, is_busy |-> busy]
    /\ os_cb' = "wrote"
    /\ w' = [c \in Callers |->
               [w[c] EXCEPT !.seen = FALSE, !.pending = FALSE,
                            !.matched = @ /\ Satisfies(w[c], operating_state_data')]]
    /\ UNCHANGED <<cvars, now, reg, fvars, operating_state_event, ros>>

\* self.__operating_state_event.set()
operating_state_cb_set ==
    /\ StateReturned
    /\ os_cb = "wrote"
    /\ os_cb' = "idle"
    /\ operating_state_event' = TRUE
    /\ w' = [c \in Callers |-> Woken(c, <<operating_state_data>>)]
    /\ UNCHANGED <<cvars, now, reg, fvars, operating_state_data, ros>>

\* ---- shutdown of the rclpy context: rclpy.ok() turns False, then the
\* on_shutdown hook __ros_shutdown sets the operating-state event
rclpy_shutdown ==
    /\ StateReturned
    /\ FreshReturned
    /\ ros = "up"
    /\ ros' = "down"
    /\ w' = [c \in Callers |-> TrackW(c,
               [w[c] EXCEPT !.at_shutdown = IF w[c].pc = "idle" THEN "none"
                                            ELSE IF w[c].pc = "parked" THEN "parked"
                                            ELSE "running"])]
    /\ UNCHANGED <<cvars, now, reg, fvars, operating_state_data, operating_state_event, os_cb>>

ros_shutdown ==
    /\ StateReturned
    /\ ros = "down"
    /\ ros' = "notified"
    /\ operating_state_event' = TRUE
    /\ w' = [c \in Callers |-> Woken(c, <<>>)]
    /\ UNCHANGED <<cvars, now, reg, fvars, operating_state_data, os_cb>>

\* ---- operating_state()
operating_state(c) ==
    /\ StateReturned
    /\ w[c].pc = "idle"
    /\ w' = [w EXCEPT ![c] = TrackW(c,
               [IdleW EXCEPT !.pc = "done", !.op = "operating_state", !.tc = now,
                             !.first = (operating_state_data.seq = 0),
                             !.seen = TRUE,
                             !.res = "value",
                             !.val = operating_state_data.state])]
    /\ UNCHANGED <<cvars, now, reg, fvars, operating_state_data, operating_state_event, os_cb, ros>>

\* ---- operating_state(extra) with extra set: the list is built from two
\* reads of self.__operating_state_data.  The first: ....state
operating_state_extra(c) ==
    /\ StateReturned
    /\ w[c].pc = "idle"
    /\ w' = [w EXCEPT ![c] = TrackW(c,
               [IdleW EXCEPT !.pc = "os_stamp", !.op = "operating_state", !.tc = now,
                             !.first = (operating_state_data.seq = 0),
                             !.val = operating_state_data.state])]
    /\ UNCHANGED <<cvars, now, reg, fvars, operating_state_data, operating_state_event, os_cb, ros>>

\* the second: StampToSeconds(....header.stamp); return [state, stamp]
operating_state_stamp(c) ==
    /\ StateReturned
    /\ w[c].pc = "os_stamp"
    /\ w' = [w EXCEPT ![c] = TrackW(c,
               [@ EXCEPT !.pc = "done", !.res = "pair", !.seen = TRUE,
                         !.ts = operating_state_data.stamp])]
    /\ UNCHANGED <<cvars, now, reg, fvars, operating_state_data, operating_state_event, os_cb, ros>>

\* ---- __enable(timeout) / __disable(timeout): the opening test
enable(c) ==
    /\ StateReturned
    /\ w[c].pc = "idle"
    /\ \E target \in PowerStates, timeout \in Timeouts :
         LET there == InPowerState(operating_state_data, target)
         IN w' = [w EXCEPT ![c] = TrackW(c,
                    [IdleW EXCEPT !.pc = IF there THEN "short" ELSE "clear",
                                  !.op = IF target = "ENABLED" THEN "enable" ELSE "disable",
                                  !.expected_state = target,
                                  !.timeout = timeout, !.T = timeout, !.tc = now,
                                  !.seen = TRUE,
                                  !.short = (operating_state_data.state = target)])]
    /\ UNCHANGED <<cvars, now, reg, fvars, operating_state_data, operating_state_event, os_cb, ros>>

\* ---- __home(timeout) / __unhome(timeout): the opening test
home(c) ==
    /\ StateReturned
    /\ w[c].pc = "idle"
    /\ \E target \in BOOLEAN, timeout \in Timeouts :
         LET there == InHomedState(operating_state_data, target)
         IN w' = [w EXCEPT ![c] = TrackW(c,
                    [IdleW EXCEPT !.pc = IF there THEN "short" ELSE "clear",
                                  !.op = IF target THEN "home" ELSE "unhome",
                                  !.expected_homed = target,
                                  !.timeout = timeout, !.T = timeout, !.tc = now,
                                  !.seen = TRUE,
                                  !.short = (operating_state_data.is_homed = target)])]
    /\ UNCHANGED <<cvars, now, reg, fvars, operating_state_data, operating_state_event, os_cb, ros>>

\* already in the target state: self.__state_command(...); return True
state_command_short(c) ==
    /\ StateReturned
    /\ w[c].pc = "short"
    /\ operating_state_event' = FALSE
    /\ w' = [w EXCEPT ![c] = TrackW(c, [@ EXCEPT !.pc = "done", !.res = "true",
                                                  !.pubs = Publish(@)])]
    /\ UNCHANGED <<cvars, now, reg, fvars, operating_state_data, os_cb, ros>>

\* otherwise: self.__operating_state_event.clear()
command_clear(c) ==
    /\ StateReturned
    /\ w[c].pc = "clear"
    /\ operating_state_event' = FALSE
    /\ w' = [w EXCEPT ![c] = TrackW(c, [@ EXCEPT !.pc = "cmd"])]
    /\ UNCHANGED <<cvars, now, reg, fvars, operating_state_data, os_cb, ros>>

\* self.__state_command(...): clear the event, publish the token; then the
\* call of wait_for_operating_state / wait_for_homed
state_command(c) ==
    /\ StateReturned
    /\ w[c].pc = "cmd"
    /\ operating_state_event' = FALSE
    /\ w' = [w EXCEPT ![c] = TrackW(c,
               [@ EXCEPT !.pc = IF w[c].op \in {"enable", "disable"}
                                THEN "wf_entry" ELSE "wh_entry",
                         !.pubs = Publish(@)])]
    /\ UNCHANGED <<cvars, now, reg, fvars, operating_state_data, os_cb, ros>>

\* ---- __wait_for_operating_state(expected_state, timeout)
\* "if timeout < 0.0: return False"; start_time = now();
\* in_time = event.wait(timeout): True at once when the flag is set, False at
\* once when it is not and timeout is 0, else park
WaitEntry(r, flag, t) ==
    IF NotWaiting(r.timeout)
    THEN [r EXCEPT !.pc = "done", !.res = "false"]
    ELSE IF flag
    THEN [r EXCEPT !.pc = "ok", !.start = t, !.in_time = TRUE]
    ELSE IF r.timeout = 0
    THEN [r EXCEPT !.pc = "ok", !.start = t, !.in_time = FALSE]
    ELSE [r EXCEPT !.pc = "parked", !.start = t, !.blocked = TRUE]

\* a direct call
wait_for_operating_state(c) ==
    /\ StateReturned
    /\ w[c].pc = "idle"
    /\ \E expected \in PowerStates, timeout \in Timeouts :
          w' = [w EXCEPT ![c] = TrackW(c, WaitEntry(
                  [IdleW EXCEPT !.op = "wait_for_operating_state",
                                !.expected_state = expected,
                                !.timeout = timeout, !.T = timeout, !.tc = now,
                                !.pending = operating_state_event],
                  operating_state_event, now))]
    /\ UNCHANGED <<cvars, now, reg, fvars, operating_state_data, operating_state_event, os_cb, ros>>

\* the call made by enable / disable, and the recursive call
wait_for_operating_state_entry(c) ==
    /\ StateReturned
    /\ w[c].pc = "wf_entry"
    /\ w' = [w EXCEPT ![c] = TrackW(c, WaitEntry(w[c], operating_state_event, now))]
    /\ UNCHANGED <<cvars, now, reg, fvars, operating_state_data, operating_state_event, os_cb, ros>>

\* event.wait(timeout) times out: in_time = False
event_wait_timeout(c) ==
    /\ StateReturned
    /\ w[c].pc = "parked"
    /\ WaitExpired(w[c].start, w[c].timeout, now)
    /\ w' = [w EXCEPT ![c] = TrackW(c, [@ EXCEPT !.pc = "ok", !.in_time = FALSE])]
    /\ UNCHANGED <<cvars, now, reg, fvars, operating_state_data, operating_state_event, os_cb, ros>>

\* "if not rclpy.ok(): return False"; "if in_time:" ... else "return False"
wait_ok(c) ==
    /\ StateReturned
    /\ w[c].pc = "ok"
    /\ w' = [w EXCEPT ![c] = TrackW(c,
               IF ~RclpyOk(ros) \/ ~w[c].in_time
               THEN [@ EXCEPT !.pc = "done", !.res = "false", !.in_time = FALSE]
               ELSE [@ EXCEPT !.pc = IF w[c].op \in {"home", "unhome"}
                                     THEN "wh_homed"
                                     ELSE IF w[c].op = "wait_for_busy"
                                     THEN "wb_busy" ELSE "wf_state",
                              !.in_time = FALSE])]
    /\ UNCHANGED <<cvars, now, reg, fvars, operating_state_data, operating_state_event, os_cb, ros>>

\* "if self.__operating_state_data.state == expected_state: return True"
wait_for_operating_state_check(c) ==
    /\ StateReturned
    /\ w[c].pc = "wf_state"
    /\ w' = [w EXCEPT ![c] = TrackW(c,
               IF StateIsExpected(operating_state_data, w[c].expected_state)
               THEN [@ EXCEPT !.pc = "done", !.res = "true",
                              !.seen = TRUE,
                              !.val = operating_state_data.state]
               ELSE [@ EXCEPT !.pc = "wf_clear",
                              !.seen = TRUE])]
    /\ UNCHANGED <<cvars, now, reg, fvars, operating_state_data, operating_state_event, os_cb, ros>>

\* "wait a bit more": elapsed_time = now() - start_time; event.clear();
\* the recursive call gets timeout - elapsed_time
wait_for_operating_state_clear(c) ==
    /\ StateReturned
    /\ w[c].pc = "wf_clear"
    /\ operating_state_event' = FALSE
    /\ w' = [w EXCEPT ![c] = TrackW(c,
               [@ EXCEPT !.pc = RecursiveCall(w[c].op),
                         !.timeout = Remaining(w[c].timeout, w[c].start, now),
                         !.start = 0])]
    /\ UNCHANGED <<cvars, now, reg, fvars, operating_state_data, os_cb, ros>>

\* ---- __wait_for_homed(timeout, expected_homed)
\* "if timeout < 0.0: return False"; _start_time = now(); event.clear()
wait_for_homed_entry(c) ==
    /\ StateReturned
    /\ w[c].pc = "wh_entry"
    /\ IF NotWaiting(w[c].timeout)
       THEN /\ w' = [w EXCEPT ![c] = TrackW(c, [@ EXCEPT !.pc = "done", !.res = "false"])]
            /\ UNCHANGED operating_state_event
       ELSE /\ w' = [w EXCEPT ![c] = TrackW(c, [@ EXCEPT !.pc = "wh_wait", !.start = now])]
            /\ operating_state_event' = FALSE
    /\ UNCHANGED <<cvars, now, reg, fvars, operating_state_data, os_cb, ros>>

\* in_time = event.wait(timeout)
wait_for_homed_wait(c) ==
    /\ StateReturned
    /\ w[c].pc = "wh_wait"
    /\ w' = [w EXCEPT ![c] = TrackW(c, WaitEntry(w[c], operating_state_event, w[c].start))]
    /\ UNCHANGED <<cvars, now, reg, fvars, operating_state_data, operating_state_event, os_cb, ros>>

\* "if (self.__operating_state_data.is_homed == expected_homed) and ..."
wait_for_homed_check(c) ==
    /\ StateReturned
    /\ w[c].pc = "wh_homed"
    /\ w' = [w EXCEPT ![c] = TrackW(c,
               IF operating_state_data.is_homed = w[c].expected_homed
               THEN [@ EXCEPT !.pc = "wh_busy", !.seen = TRUE]
               ELSE [@ EXCEPT !.pc = RecursiveCall(w[c].op), !.seen = TRUE,
                              !.timeout = Remaining(w[c].timeout, w[c].start, now),
                              !.start = 0])]
    /\ UNCHANGED <<cvars, now, reg, fvars, operating_state_data, operating_state_event, os_cb, ros>>

\* "... and (not self.__operating_state_data.is_busy): return True"; else the
\* recursive call gets timeout - elapsed_time
wait_for_homed_check_busy(c) ==
    /\ StateReturned
    /\ w[c].pc = "wh_busy"
    /\ w' = [w EXCEPT ![c] = TrackW(c,
               IF IsIdle(operating_state_data)
               THEN [@ EXCEPT !.pc = "done", !.res = "true", !.start = 0]
               ELSE [@ EXCEPT !.pc = RecursiveCall(w[c].op),
                              !.timeout = Remaining(w[c].timeout, w[c].start, now),
                              !.start = 0])]
    /\ UNCHANGED <<cvars, now, reg, fvars, operating_state_data, operating_state_event, os_cb, ros>>

\* ---- __is_busy(start_time): start_time = None becomes now();
\* result = True; "if Time.from_msg(...header.stamp) > start_time:"
is_busy(c) ==
    /\ StateReturned
    /\ w[c].pc = "idle"
    /\ \E start_time \in 0..now :
         LET r == [IdleW EXCEPT !.op = "is_busy", !.start_time = start_time,
                                !.tc = now, !.seen = TRUE]
         IN w' = [w EXCEPT ![c] = TrackW(c,
                    IF StampAfter(operating_state_data.stamp, start_time)
                    THEN [r EXCEPT !.pc = "ib_flag"]
                    ELSE [r EXCEPT !.pc = "done", !.res = "true"])]
    /\ UNCHANGED <<cvars, now, reg, fvars, operating_state_data, operating_state_event, os_cb, ros>>

\* "result = self.__operating_state_data.is_busy"; return result
is_busy_flag(c) ==
    /\ StateReturned
    /\ w[c].pc = "ib_flag"
    /\ w' = [w EXCEPT ![c] = TrackW(c,
               [@ EXCEPT !.pc = "done", !.seen = TRUE,
                         !.res = IF operating_state_data.is_busy
                                 THEN "true" ELSE "false"])]
    /\ UNCHANGED <<cvars, now, reg, fvars, operating_state_data, operating_state_event, os_cb, ros>>

\* ---- __is_busy() called without a start_time, statement by statement.
\* "if start_time is None: start_time = self.__now()"
DefaultStartTimeEpoch(t) == 0
DefaultStartTime(t) == t

is_busy_now(c) ==
    /\ StateReturned
    /\ w[c].pc = "idle"
    /\ w' = [w EXCEPT ![c] = TrackW(c,
               [IdleW EXCEPT !.op = "is_busy", !.pc = "ib_stamp",
                             !.start_time = DefaultStartTime(now), !.tc = now])]
    /\ UNCHANGED <<cvars, now, reg, fvars, operating_state_data, operating_state_event, os_cb, ros>>

\* result = True; "if Time.from_msg(...header.stamp) > start_time:"
is_busy_stamp(c) ==
    /\ StateReturned
    /\ w[c].pc = "ib_stamp"
    /\ w' = [w EXCEPT ![c] = TrackW(c,
               IF StampAfter(operating_state_data.stamp, w[c].start_time)
               THEN [@ EXCEPT !.pc = "ib_flag", !.seen = TRUE]
               ELSE [@ EXCEPT !.pc = "done", !.seen = TRUE, !.res = "true"])]
    /\ UNCHANGED <<cvars, now, reg, fvars, operating_state_data, operating_state_event, os_cb, ros>>

\* The clock is read once, at the top of __is_busy; the thread may be
\* descheduled before either of the two reads of the record that follow.
is_busy_elapse ==
    /\ now < MaxTime
    /\ \E c \in Callers : w[c].pc \in {"ib_stamp", "ib_flag"}
    /\ now' = now + 1
    /\ UNCHANGED <<cvars, reg, fvars, svars>>

\* ---- __wait_for_busy(is_busy, start_time, timeout)
\* "if timeout < 0.0: return False"; "if start_time > self.__now():" the
\* cached record is accepted when it is stamped after start_time and its
\* is_busy is the one expected.  (Records are stamped at or before their
\* delivery, so a record stamped after a start_time that is still in the
\* future does not occur.)
BusyEntry(r, rec, t) ==
    IF NotWaiting(r.timeout)
    THEN [r EXCEPT !.pc = "done", !.res = "false"]
    ELSE IF /\ r.start_time > t
            /\ StampAfter(rec.stamp, r.start_time)
            /\ BusyIsExpected(rec, r.is_busy)
    THEN [r EXCEPT !.pc = "done", !.res = "true", !.seen = TRUE]
    ELSE [r EXCEPT !.pc = "wb_clear"]

\* a direct call; start_time = None becomes now()
wait_for_busy(c) ==
    /\ StateReturned
    /\ w[c].pc = "idle"
    /\ \E busy \in BOOLEAN, start_time \in 0..(now + 1), timeout \in Timeouts :
          w' = [w EXCEPT ![c] = TrackW(c, BusyEntry(
                  [IdleW EXCEPT !.op = "wait_for_busy", !.is_busy = busy,
                                !.start_time = start_time,
                                !.timeout = timeout, !.T = timeout, !.tc = now,
                                !.pending = operating_state_event],
                  operating_state_data, now))]
    /\ UNCHANGED <<cvars, now, reg, fvars, operating_state_data, operating_state_event, os_cb, ros>>

\* the recursive call
wait_for_busy_entry(c) ==
    /\ StateReturned
    /\ w[c].pc = "wb_entry"
    /\ w' = [w EXCEPT ![c] = TrackW(c, BusyEntry(w[c], operating_state_data, now))]
    /\ UNCHANGED <<cvars, now, reg, fvars, operating_state_data, operating_state_event, os_cb, ros>>

\* _start_time = now(); self.__operating_state_event.clear()
wait_for_busy_clear(c) ==
    /\ StateReturned
    /\ w[c].pc = "wb_clear"
    /\ operating_state_event' = FALSE
    /\ w' = [w EXCEPT ![c] = TrackW(c, [@ EXCEPT !.pc = "wb_wait", !.start = now])]
    /\ UNCHANGED <<cvars, now, reg, fvars, operating_state_data, os_cb, ros>>

\* in_time = event.wait(timeout)
wait_for_busy_wait(c) ==
    /\ StateReturned
    /\ w[c].pc = "wb_wait"
    /\ w' = [w EXCEPT ![c] = TrackW(c, WaitEntry(w[c], operating_state_event, w[c].start))]
    /\ UNCHANGED <<cvars, now, reg, fvars, operating_state_data, operating_state_event, os_cb, ros>>

\* "if self.__operating_state_data.is_busy == is_busy: return True"; else the
\* recursive call gets timeout - elapsed_time
wait_for_busy_check(c) ==
    /\ StateReturned
    /\ w[c].pc = "wb_busy"
    /\ w' = [w EXCEPT ![c] = TrackW(c,
               IF BusyIsExpected(operating_state_data, w[c].is_busy)
               THEN [@ EXCEPT !.pc = "done", !.res = "true", !.seen = TRUE,
                              !.start = 0]
               ELSE [@ EXCEPT !.pc = RecursiveCall(w[c].op), !.seen = TRUE,
                              !.timeout = Remaining(w[c].timeout, w[c].start, now),
                              !.start = 0])]
    /\ UNCHANGED <<cvars, now, reg, fvars, operating_state_data, operating_state_event, os_cb, ros>>

\* ---- __move_jp / __move_jr / __move_cp(setpoint)
\* crtk.wait_move_handle(operating_state_instance, ros_node): the handle
\* keeps the operating-state machine it is given and start_time = now()
wait_move_handle(r, t) ==
    [r EXCEPT !.handle = "operating_state_instance", !.start_time = t]

\* one statement of a move
MoveStatement(r, what, t) ==
    IF what = "handle" THEN wait_move_handle(r, t)
    ELSE [r EXCEPT !.pubs = Publish(@)]

\* the first of the two statements
move(c) ==
    /\ StateReturned
    /\ w[c].pc = "idle"
    /\ w' = [w EXCEPT ![c] = TrackW(c, MoveStatement(
               [IdleW EXCEPT !.pc = "mv_second", !.op = "move", !.tc = now],
               MoveSteps[1], now))]
    /\ UNCHANGED <<cvars, now, reg, fvars, operating_state_data, operating_state_event, os_cb, ros>>

\* the second; return handle
move_second(c) ==
    /\ StateReturned
    /\ w[c].pc = "mv_second"
    /\ w' = [w EXCEPT ![c] = TrackW(c, MoveStatement(
               [w[c] EXCEPT !.pc = "done", !.res = "handle"],
               MoveSteps[2], now))]
    /\ UNCHANGED <<cvars, now, reg, fvars, operating_state_data, operating_state_event, os_cb, ros>>

\* state_command(token) called from another thread.  Callers act on the
\* shared state through event.clear() alone, so this stands for everything
\* the calls of other threads do to the caller under observation.
other_state_command ==
    /\ StateReturned
    /\ operating_state_event' = FALSE
    /\ UNCHANGED <<cvars, now, reg, fvars, operating_state_data, os_cb, ros, w>>

\* the caller goes on to its next call
state_return(c) ==
    /\ w[c].pc = "done"
    /\ w' = [w EXCEPT ![c] = IdleW]
    /\ UNCHANGED <<cvars, now, reg, fvars, operating_state_data, operating_state_event, os_cb, ros>>

\* ======================================================================
\* The registry: add_*, remove_all, __del__
\* ======================================================================

\* add_operating_state creates a subscription and a publisher, add_setpoint_js
\* (like every telemetry add_*) a subscription, add_servo_jp (like every servo
\* and move add_*) a publisher
Capabilities == {"operating_state", "setpoint_js", "servo_jp"}
Subscribes(cap) == cap \in {"operating_state", "setpoint_js"}
Publishes(cap) == cap \in {"operating_state", "servo_jp"}

Range(seq) == {seq[i] : i \in DOMAIN seq}

\* utils.__init__(class_instance, ros_node, expected_interval,
\* operating_state_instance).  bound is the set of capabilities whose
\* accessors are attributes of class_instance; gen counts how often the data
\* record, the event and the accessors of a capability were made; destroyed
\* lists the handles passed to destroy_subscription / destroy_publisher.
NewUtils(instance) ==
    [subscribers |-> <<>>, publishers |-> <<>>, attributes |-> <<>>,
     operating_state_instance |-> instance,
     bound |-> {}, gen |-> [cap \in Capabilities |-> 0], destroyed |-> <<>>,
     removes |-> 0, deleted |-> FALSE,
     last |-> [op |-> "init", cap |-> "", res |-> "ok"]]

\* a handle the node returns from create_subscription / create_publisher
Handle(r, cap, kind) == [cap |-> cap, kind |-> kind, gen |-> r.gen[cap] + 1]

\* "if hasattr(self.__class_instance, '<capability>'): raise RuntimeWarning"
AlreadyExistsNever(r, cap) == FALSE
AlreadyExists(r, cap) == cap \in r.bound

\* add_<capability>(): the duplicate test; then the data record and the event,
\* the subscription and / or publisher appended to the lists, the accessors
\* bound; add_operating_state ends by setting operating_state_instance, or
\* raises when the constructor was given one
Add(r, cap) ==
    IF AlreadyExists(r, cap)
    THEN [r EXCEPT !.last = [op |-> "add", cap |-> cap, res |-> "raise"]]
    ELSE LET r1 == [r EXCEPT
                      !.gen[cap] = @ + 1,
                      !.subscribers = IF Subscribes(cap)
                                      THEN Append(@, Handle(r, cap, "subscription"))
                                      ELSE @,
                      !.publishers = IF Publishes(cap)
                                     THEN Append(@, Handle(r, cap, "publisher"))
                                     ELSE @,
                      !.bound = @ \cup {cap}]
         IN IF cap = "operating_state" /\ r.operating_state_instance # "none"
            THEN [r1 EXCEPT !.last = [op |-> "add", cap |-> cap, res |-> "raise"]]
            ELSE [r1 EXCEPT !.operating_state_instance =
                               IF cap = "operating_state" THEN "class_instance" ELSE @,
                            !.last = [op |-> "add", cap |-> cap, res |-> "ok"]]

\* remove_all(): destroy_subscription for each of self.__subscribers,
\* destroy_publisher for each of self.__publishers, delattr for each of
\* self.__attributes; the lists are left as they are
RemoveAll(r) ==
    [r EXCEPT !.destroyed = @ \o r.subscribers \o r.publishers,
              !.bound = @ \ Range(r.attributes),
              !.removes = @ + 1,
              !.last = [op |-> "remove_all", cap |-> "", res |-> "ok"]]

\* the registry the channel specifications start from: add_setpoint_js and
\* add_operating_state have been called on a new utils object
Registered == Add(Add(NewUtils("none"), "setpoint_js"), "operating_state")

add(cap) ==
    /\ ~reg.deleted
    /\ reg' = Add(reg, cap)
    /\ UNCHANGED <<cvars, now, fvars, svars>>

remove_all ==
    /\ ~reg.deleted
    /\ reg.removes < MaxRemoves
    /\ reg' = RemoveAll(reg)
    /\ UNCHANGED <<cvars, now, fvars, svars>>

\* __del__: self.remove_all(), after which the object is gone
del ==
    /\ ~reg.deleted
    /\ reg' = [RemoveAll(reg) EXCEPT !.deleted = TRUE]
    /\ UNCHANGED <<cvars, now, fvars, svars>>

\* ======================================================================
\* The cartesian pose channels and measured_cp(age, wait, extra)
\* ======================================================================

\* poses a device sends; geometry_msgs.msg.PoseStamped() holds the default
\* pose and stamp 0
Poses == {"p1", "p2"}
DefaultPoseStamped == [seq |-> 0, pose |-> "p0", stamp |-> 0]

\* The query's record.  pc, data (the record bound to the parameter data),
\* wait, t0 (when event.wait was entered) and extra drive the call; measured
\* remembers the pose measured_cp_data held when the accessor read the pose
\* it returns; res, pose and ts are the outcome.
IdleM == [pc |-> "idle", data |-> DefaultPoseStamped, wait |-> 0, t0 |-> 0,
          extra |-> FALSE, measured |-> "p0",
          res |-> "none", pose |-> "p0", ts |-> 0]

\* add_measured_cp has been called; add_setpoint_cp has not
CpInit ==
    /\ measured_cp_data = DefaultPoseStamped
    /\ measured_cp_event = FALSE
    /\ cp_cb = "idle"
    /\ setpoint_cp_data = <<>>
    /\ setpoint_cp_event = FALSE
    /\ m = IdleM

CpReturned == m.pc # "done"

\* __measured_cp_cb: self.__measured_cp_data = msg
measured_cp_cb_write ==
    /\ CpReturned
    /\ cp_cb = "idle"
    /\ measured_cp_data.seq < MaxCpSeq
    /\ \E pose \in Poses, stamp \in measured_cp_data.stamp..now :
          measured_cp_data' = [seq |-> measured_cp_data.seq + 1, pose |-> pose,
                               stamp |-> stamp]
    /\ cp_cb' = "wrote"
    /\ UNCHANGED <<now, reg, fvars, svars, measured_cp_event, setpoint_cp_data,
                   setpoint_cp_event, m>>

\* self.__measured_cp_event.set()
measured_cp_cb_set ==
    /\ CpReturned
    /\ cp_cb = "wrote"
    /\ cp_cb' = "idle"
    /\ measured_cp_event' = TRUE
    /\ m' = IF m.pc = "parked" THEN [m EXCEPT !.pc = "read", !.t0 = 0] ELSE m
    /\ UNCHANGED <<now, reg, fvars, svars, measured_cp_data, setpoint_cp_data,
                   setpoint_cp_event>>

\* __setpoint_cp_cb: the lock flag is raised, self.__setpoint_cp_data = msg,
\* the lock flag is lowered, the event is set (nobody reads the lock flag, and
\* nobody in this model waits on the event)
setpoint_cp_cb ==
    /\ CpReturned
    /\ setpoint_cp_data # <<>>
    /\ setpoint_cp_data[1].seq < MaxCpSeq
    /\ \E pose \in Poses, stamp \in setpoint_cp_data[1].stamp..now :
          setpoint_cp_data' = <<[seq |-> setpoint_cp_data[1].seq + 1, pose |-> pose,
                                 stamp |-> stamp]>>
    /\ setpoint_cp_event' = TRUE
    /\ UNCHANGED <<now, reg, fvars, svars, measured_cp_data, measured_cp_event,
                   cp_cb, m>>

\* the call: the arguments of __wait_for_valid_data are evaluated, which
\* binds data to self.__measured_cp_data
measured_cp_call ==
    /\ m.pc = "idle"
    /\ \E extra \in BOOLEAN :
          m' = [IdleM EXCEPT !.pc = "called", !.data = measured_cp_data,
                             !.extra = extra]
    /\ UNCHANGED <<now, reg, fvars, svars, measured_cp_data, measured_cp_event,
                   cp_cb, setpoint_cp_data, setpoint_cp_event>>

\* __wait_for_valid_data: event.clear(), the defaults, the age test
measured_cp_check ==
    /\ CpReturned
    /\ m.pc = "called"
    /\ measured_cp_event' = ClearOnEntry(measured_cp_event)
    /\ \E age_arg \in Args, wait_arg \in Args :
         LET age == OrExpectedInterval(age_arg)
             wait == OrExpectedInterval(wait_arg)
         IN m' = IF CacheAccepts(age, m.data.stamp, now)
                 THEN [m EXCEPT !.pc = "read", !.wait = wait]
                 ELSE IF WillWait(wait)
                 THEN [m EXCEPT !.pc = "waiting", !.wait = wait]
                 ELSE [m EXCEPT !.pc = "done", !.res = "raise", !.wait = wait]
    /\ UNCHANGED <<now, reg, fvars, svars, measured_cp_data, cp_cb,
                   setpoint_cp_data, setpoint_cp_event>>

\* event.wait(wait) is entered
measured_cp_wait ==
    /\ CpReturned
    /\ m.pc = "waiting"
    /\ m' = IF measured_cp_event
            THEN [m EXCEPT !.pc = "read"]
            ELSE [m EXCEPT !.pc = "parked", !.t0 = now]
    /\ UNCHANGED <<now, reg, fvars, svars, measured_cp_data, measured_cp_event,
                   cp_cb, setpoint_cp_data, setpoint_cp_event>>

\* event.wait(wait) times out: RuntimeWarning('unable to get measured_cp')
measured_cp_timeout ==
    /\ CpReturned
    /\ m.pc = "parked"
    /\ WaitExpired(m.t0, m.wait, now)
    /\ m' = [m EXCEPT !.pc = "done", !.res = "raise"]
    /\ UNCHANGED <<now, reg, fvars, svars, measured_cp_data, measured_cp_event,
                   cp_cb, setpoint_cp_data, setpoint_cp_event>>

\* the record the accessor takes the pose from:
\* "FrameFromPoseMsg(self.__setpoint_cp_data.pose)"; <<>> when the attribute
\* does not exist
PoseSource(measured, setpoint) == setpoint

\* __wait_for_valid_data returned True: the pose is read; without extra it
\* is returned.  Reading an attribute that does not exist raises
\* AttributeError.
measured_cp_pose ==
    /\ CpReturned
    /\ m.pc = "read"
    /\ LET src == PoseSource(measured_cp_data, setpoint_cp_data)
           r == [m EXCEPT !.measured = measured_cp_data.pose]
       IN m' = IF src = <<>>
               THEN [r EXCEPT !.pc = "done", !.res = "AttributeError"]
               ELSE IF m.extra
               THEN [r EXCEPT !.pc = "stamp", !.pose = src[1].pose]
               ELSE [r EXCEPT !.pc = "done", !.res = "ok", !.pose = src[1].pose]
    /\ UNCHANGED <<now, reg, fvars, svars, measured_cp_data, measured_cp_event,
                   cp_cb, setpoint_cp_data, setpoint_cp_event>>

\* with extra: "StampToSeconds(self.__measured_cp_data.header.stamp)"
measured_cp_stamp ==
    /\ CpReturned
    /\ m.pc = "stamp"
    /\ m' = [m EXCEPT !.pc = "done", !.res = "ok", !.ts = measured_cp_data.stamp]
    /\ UNCHANGED <<now, reg, fvars, svars, measured_cp_data, measured_cp_event,
                   cp_cb, setpoint_cp_data, setpoint_cp_event>>

\* the caller goes on to its next call
measured_cp_return ==
    /\ m.pc = "done"
    /\ m' = IdleM
    /\ UNCHANGED <<now, reg, fvars, svars, measured_cp_data, measured_cp_event,
                   cp_cb, setpoint_cp_data, setpoint_cp_event>>

CpQuiet ==
    /\ cp_cb = "idle"
    /\ m.pc \in {"idle", "parked"}
    /\ m.pc = "parked" => ~WaitExpired(m.t0, m.wait, now)

\* ---- the clock
FreshQuiet ==
    /\ js_cb = "idle"
    /\ \A c \in Callers :
          /\ q[c].pc \in {"idle", "parked"}
          /\ q[c].pc = "parked" => ~WaitExpired(q[c].t0, q[c].wait, now)

StateQuiet ==
    /\ os_cb = "idle"
    /\ ros # "down"
    /\ \A c \in Callers :
          /\ w[c].pc \in {"idle", "parked"}
          /\ w[c].pc = "parked" => ~WaitExpired(w[c].start, w[c].timeout, now)

Tick ==
    /\ now < MaxTime
    /\ FreshQuiet
    /\ StateQuiet
    /\ CpQuiet
    /\ now' = now + 1
    /\ UNCHANGED <<cvars, reg, fvars, svars>>

Init == now = 0 /\ FreshInit /\ StateInit /\ CpInit /\ reg = Registered

\* a new utils object, constructed with or without an operating_state_instance
InitRegistry ==
    /\ now = 0 /\ FreshInit /\ StateInit /\ CpInit
    /\ reg \in {NewUtils(instance) : instance \in {"none", "operating_state_instance"}}

\* the telemetry channel and its callers
Next ==
    \/ Tick
    \/ setpoint_js_cb_write
    \/ setpoint_js_cb_set
    \/ \E c \in Callers : setpoint_jp_call(c)
    \/ \E c \in Callers : wait_for_valid_data_check(c)
    \/ \E c \in Callers : wait_for_valid_data_wait(c)
    \/ \E c \in Callers : wait_for_valid_data_timeout(c)
    \/ \E c \in Callers : setpoint_jp_read(c)
    \/ \E c \in Callers : setpoint_jp_return(c)

Spec == Init /\ [][Next]_vars

\* the operating-state machine and the callers in Who
StateStep(Who) ==
    \/ Tick
    \/ operating_state_cb_write({"state", "is_homed", "is_busy"})
    \/ operating_state_cb_set
    \/ rclpy_shutdown
    \/ ros_shutdown
    \/ \E c \in Who : operating_state(c)
    \/ \E c \in Who : enable(c)
    \/ \E c \in Who : home(c)
    \/ \E c \in Who : state_command_short(c)
    \/ \E c \in Who : command_clear(c)
    \/ \E c \in Who : state_command(c)
    \/ \E c \in Who : wait_for_operating_state(c)
    \/ \E c \in Who : wait_for_operating_state_entry(c)
    \/ \E c \in Who : event_wait_timeout(c)
    \/ \E c \in Who : wait_ok(c)
    \/ \E c \in Who : wait_for_operating_state_check(c)
    \/ \E c \in Who : wait_for_operating_state_clear(c)
    \/ \E c \in Who : wait_for_homed_entry(c)
    \/ \E c \in Who : wait_for_homed_wait(c)
    \/ \E c \in Who : wait_for_homed_check(c)
    \/ \E c \in Who : wait_for_homed_check_busy(c)
    \/ \E c \in Who : state_return(c)

\* busy queries, busy waits and moves of the callers in Who, on stamped records
BusyStep(Who) ==
    \/ Tick
    \/ operating_state_cb_write({"stamp", "is_busy"})
    \/ operating_state_cb_set
    \/ rclpy_shutdown
    \/ ros_shutdown
    \/ \E c \in Who : is_busy(c)
    \/ \E c \in Who : is_busy_flag(c)
    \/ \E c \in Who : wait_for_busy(c)
    \/ \E c \in Who : wait_for_busy_entry(c)
    \/ \E c \in Who : wait_for_busy_clear(c)
    \/ \E c \in Who : wait_for_busy_wait(c)
    \/ \E c \in Who : event_wait_timeout(c)
    \/ \E c \in Who : wait_ok(c)
    \/ \E c \in Who : wait_for_busy_check(c)
    \/ \E c \in Who : move(c)
    \/ \E c \in Who : move_second(c)
    \/ \E c \in Who : state_return(c)

\* a single caller
SpecBusy == Init /\ [][BusyStep({Observed})]_vars

\* is_busy() without a start_time, a single caller; time may pass inside
\* the call
NextBusyNow ==
    \/ Tick
    \/ operating_state_cb_write({"stamp", "is_busy"})
    \/ operating_state_cb_set
    \/ is_busy_now(Observed)
    \/ is_busy_elapse
    \/ is_busy_stamp(Observed)
    \/ is_busy_flag(Observed)
    \/ state_return(Observed)

SpecBusyNow == Init /\ [][NextBusyNow]_vars

\* busy waits of two callers, no shutdown
NextBusyPair ==
    \/ Tick
    \/ operating_state_cb_write({"stamp", "is_busy"})
    \/ operating_state_cb_set
    \/ \E c \in Callers : wait_for_busy(c)
    \/ \E c \in Callers : wait_for_busy_entry(c)
    \/ \E c \in Callers : wait_for_busy_clear(c)
    \/ \E c \in Callers : wait_for_busy_wait(c)
    \/ \E c \in Callers : event_wait_timeout(c)
    \/ \E c \in Callers : wait_ok(c)
    \/ \E c \in Callers : wait_for_busy_check(c)
    \/ \E c \in Callers : state_return(c)

SpecBusyPair == Init /\ [][NextBusyPair]_vars

\* the three wait_for_* of a single caller.  The records carry no stamp here:
\* wait_for_busy reads it only in the shortcut for start_time > now.
NextWaits ==
    \/ StateStep({Observed})
    \/ wait_for_busy(Observed)
    \/ wait_for_busy_entry(Observed)
    \/ wait_for_busy_clear(Observed)
    \/ wait_for_busy_wait(Observed)
    \/ wait_for_busy_check(Observed)

SpecWaits == Init /\ [][NextWaits]_vars

\* the telemetry channel and its callers when the context shuts down
NextShutdown ==
    \/ Next
    \/ rclpy_shutdown
    \/ ros_shutdown

SpecShutdown == Init /\ [][NextShutdown]_vars

\* the registry of one utils object
NextRegistry ==
    \/ \E cap \in Capabilities : add(cap)
    \/ remove_all
    \/ del

SpecRegistry == InitRegistry /\ [][NextRegistry]_vars

\* operating_state(extra) and home / unhome of a single caller on stamped
\* records, no shutdown
NextSnapshot ==
    \/ Tick
    \/ operating_state_cb_write({"state", "stamp", "is_homed", "is_busy"})
    \/ operating_state_cb_set
    \/ operating_state_extra(Observed)
    \/ operating_state_stamp(Observed)
    \/ home(Observed)
    \/ state_command_short(Observed)
    \/ command_clear(Observed)
    \/ state_command(Observed)
    \/ wait_for_homed_entry(Observed)
    \/ wait_for_homed_wait(Observed)
    \/ event_wait_timeout(Observed)
    \/ wait_ok(Observed)
    \/ wait_for_homed_check(Observed)
    \/ wait_for_homed_check_busy(Observed)
    \/ state_return(Observed)

SpecSnapshot == Init /\ [][NextSnapshot]_vars

\* add_measured_cp has been called, add_setpoint_cp has or has not
InitCp ==
    /\ now = 0 /\ FreshInit /\ StateInit /\ reg = Registered
    /\ measured_cp_data = DefaultPoseStamped
    /\ measured_cp_event = FALSE
    /\ cp_cb = "idle"
    /\ setpoint_cp_data \in {<<>>, <<DefaultPoseStamped>>}
    /\ setpoint_cp_event = FALSE
    /\ m = IdleM

\* the cartesian pose channels and a caller of measured_cp
NextCp ==
    \/ Tick
    \/ measured_cp_cb_write
    \/ measured_cp_cb_set
    \/ setpoint_cp_cb
    \/ measured_cp_call
    \/ measured_cp_check
    \/ measured_cp_wait
    \/ measured_cp_timeout
    \/ measured_cp_pose
    \/ measured_cp_stamp
    \/ measured_cp_return

SpecCp == InitCp /\ [][NextCp]_vars

\* a single caller
NextStateSolo == StateStep({Observed})
SpecStateSolo == Init /\ [][NextStateSolo]_vars

\* one caller under observation, other threads issuing state commands
NextState == StateStep({Observed}) \/ other_state_command
SpecState == Init /\ [][NextState]_vars

\* ======================================================================
\* Properties of the freshness query (checked under Spec)
\* ======================================================================
o == q[Observed]

\* the age test of the call accepted the record bound to data
Accepted(r) == r.age # 0 /\ r.fresh

\* C1 (as stated): a query with age A > 0 whose cached record has age <= A
\* succeeds without blocking and returns exactly that cached record.
C1_Original ==
    (o.pc = "done" /\ o.age > 0 /\ o.fresh /\ o.cap > 0)
        => (o.res = "ok" /\ ~o.blocked /\ o.ret.seq = o.cap)

\* C1 (amended): a query with age A > 0 whose cached record has age <= A
\* succeeds without blocking, whatever wait is, and returns that cached record
\* or a record the callback wrote after the call began.
C1_CacheHit ==
    (o.pc = "done" /\ o.age > 0 /\ o.fresh)
        => (o.res = "ok" /\ ~o.blocked /\ (o.ret.seq = o.cap \/ o.ret.seq > o.began))

C1_Witness ==
    /\ o.pc = "done" /\ o.age > 0 /\ o.fresh /\ o.cap > 0
    /\ o.res = "ok" /\ ~o.blocked /\ o.ret.seq = o.cap /\ o.wait > 0

\* C2: a query that returns a value returns either the record whose age it
\* tested and found <= the effective age, or a record whose callback completed
\* after the call began; never a stale record delivered before the call.
C2_FreshnessValidity ==
    (o.pc = "done" /\ o.res = "ok")
        => ((o.ret.seq = o.cap /\ Accepted(o)) \/ o.ret.seq > o.began)

C2_Witness ==
    /\ o.pc = "done" /\ o.res = "ok" /\ o.blocked
    /\ ~o.fresh /\ o.cap > 0 /\ o.ret.seq > o.began
    /\ (\E c \in Callers \ {Observed} : q[c].pc \in {"waiting", "parked"})

\* C3: a query that finds no acceptable cached record, has wait W > 0 and sees
\* no callback complete during the call fails, and not before W has elapsed.
C3_FreshnessTimeout ==
    (o.pc = "done" /\ ~Accepted(o) /\ o.wait > 0 /\ ~o.upd)
        => (o.res = "raise" /\ now - o.tc >= o.wait)

C3_Witness ==
    /\ o.pc = "done" /\ ~Accepted(o) /\ o.wait > 0 /\ ~o.upd
    /\ o.res = "raise" /\ o.blocked /\ now - o.tc = o.wait

C5_AgeZeroAcceptsReceived ==
    (o.pc = "done" /\ o.age = 0 /\ o.began > 0)
        => (o.res = "ok" /\ (o.wait = 0 => ~o.blocked))

\* C6: a query that misses the cache with wait W > 0 returns successfully when
\* a callback completes after the call cleared the event and before W elapses,
\* whatever other callers do on the channel.
C6_WaitSucceeds ==
    (o.pc = "done" /\ ~Accepted(o) /\ o.wait > 0 /\ o.updw)
        => o.res = "ok"

\* ======================================================================
\* Properties of the operating-state machine
\* ======================================================================
ow == w[Observed]

\* C7: a query made before the first sample was delivered fails instead of
\* returning a value derived from the default-constructed record.
C7_NoDefaultBeforeFirstSample ==
    (ow.pc = "done" /\ ow.op = "operating_state" /\ ow.first) => ow.res = "raise"

\* C8: enable / disable / home / unhome called while the record is already in
\* the target state returns True without parking in event.wait and without
\* time passing, for any timeout, and publishes the command token exactly once.
C8_IdempotentTransition ==
    (ow.pc # "idle" /\ ow.op \in {"enable", "disable", "home", "unhome"} /\ ow.short)
        => /\ ow.pc \in {"short", "done"}
           /\ ~ow.blocked /\ now = ow.tc
           /\ ow.pc = "done" => (ow.res = "true" /\ ow.pubs = 1)

C8_Witness ==
    /\ ow.pc = "done" /\ ow.op = "enable" /\ ow.short /\ ow.T > 0
    /\ ow.res = "true" /\ ow.pubs = 1 /\ operating_state_data.state = "ENABLED"

\* C9: with a single caller and no shutdown, wait_for_operating_state(expected, T)
\* (directly or from enable / disable) with T > 0 returns True whenever a record
\* matching expected is delivered while it waits with time left, no record
\* that does not match following it.
C9_DeadlineComposition ==
    (/\ ow.pc = "done"
     /\ ow.op \in {"wait_for_operating_state", "enable", "disable"}
     /\ ow.T > 0 /\ ros = "up" /\ ow.matched)
        => ow.res = "true"

\* C10: no caller is parked in a wait_for_* with time left while the record
\* satisfies its predicate, was delivered after the call entered the wait_for_*,
\* has not been read by the caller, and the event is clear.
C10_NoLostWakeup ==
    ~(/\ ow.pc = "parked"
      /\ ~WaitExpired(ow.start, ow.timeout, now)
      /\ os_cb = "idle" /\ ros = "up"
      /\ ~operating_state_event
      /\ Satisfies(ow, operating_state_data)
      /\ ow.newer /\ ~ow.seen)

\* C11: wait_for_operating_state (directly or from enable / disable) returns
\* True from a wait only when the power state it read after the wake-up equals
\* expected_state; a wake-up on a record with another power state, whatever
\* its is_busy and is_homed, sends it back to wait.
C11_NoSpuriousSuccess ==
    (/\ ow.pc = "done" /\ ow.res = "true" /\ ~ow.short
     /\ ow.op \in {"wait_for_operating_state", "enable", "disable"})
        => ow.val = ow.expected_state

C11_Witness ==
    /\ ow.pc = "done" /\ ow.res = "true" /\ ow.op = "wait_for_operating_state"
    /\ ow.blocked /\ ow.timeout < ow.T /\ ow.val = ow.expected_state
    /\ operating_state_data.is_busy /\ operating_state_data.seq = MaxOsSeq

\* the call is one of the wait_for_*, made directly or by a transition
\* command that did not find the record in the target state
InWaitFor(r) ==
    /\ r.op \in {"wait_for_operating_state", "wait_for_busy",
                 "enable", "disable", "home", "unhome"}
    /\ ~r.short

\* the caller's step invokes a wait_for_* with a negative timeout: a direct
\* call, the call made by a transition command, or a recursive call
NegativeInvocation ==
    \/ /\ ow.pc = "idle"
       /\ w'[Observed].op \in {"wait_for_operating_state", "wait_for_busy"}
       /\ w'[Observed].T < 0
    \/ /\ ow.pc \in {"wf_entry", "wh_entry", "wb_entry"}
       /\ ow.timeout < 0
       /\ w'[Observed].pc # ow.pc

\* C12: an invocation of wait_for_operating_state, wait_for_homed or
\* wait_for_busy with timeout < 0 returns False in that same step: it does not
\* park, no time passes, and the event and the record are left as they were.
C12_NegativeTimeout ==
    [][NegativeInvocation =>
          /\ w'[Observed].pc = "done" /\ w'[Observed].res = "false"
          /\ ~w'[Observed].blocked
          /\ UNCHANGED <<now, operating_state_event, operating_state_data>>]_vars

C12_Witness ==
    /\ ow.pc = "done" /\ ow.op \in {"home", "unhome"} /\ ow.T < 0
    /\ ow.res = "false" /\ ~ow.blocked /\ ow.pubs = 1
    /\ operating_state_event /\ Satisfies(ow, operating_state_data)

\* C13 (as stated): once the context has shut down no wait_for_* returns True.
C13_Original ==
    (ow.pc = "done" /\ InWaitFor(ow) /\ ow.res = "true") => ros = "up"

\* C13 (amended): a caller parked in a wait_for_* when the context shuts down
\* is woken by the shutdown hook and returns False, whatever the record; a
\* wait_for_* that begins after the shutdown returns False.  (A call that had
\* passed its rclpy.ok() test before the shutdown can still return True.)
C13_ShutdownWakes ==
    /\ (ros = "notified" /\ ow.at_shutdown = "parked")
          => (ow.pc \in {"ok", "done"} /\ (ow.pc = "done" => ow.res = "false"))
    /\ (ow.pc = "done" /\ InWaitFor(ow) /\ ros # "up" /\ ow.at_shutdown = "none")
          => ow.res = "false"

C13_Witness ==
    /\ ros = "notified" /\ ow.at_shutdown = "parked"
    /\ ow.pc = "done" /\ ow.res = "false" /\ InWaitFor(ow)
    /\ Satisfies(ow, operating_state_data) /\ operating_state_data.seq > 0
    /\ now < ow.tc + ow.T

\* C14: once the shutdown hooks have run no caller is parked with time left:
\* neither a telemetry query in the freshness wait nor a state waiter.
C14_ShutdownUnblocksAll ==
    ros = "notified" =>
        \A c \in Callers :
            /\ ~(q[c].pc = "parked" /\ ~WaitExpired(q[c].t0, q[c].wait, now))
            /\ ~(w[c].pc = "parked" /\ ~WaitExpired(w[c].start, w[c].timeout, now))

\* ======================================================================
\* Properties of the busy flag and of moves
\* ======================================================================

\* C15: wait_for_busy(is_busy, start_time, timeout) with a start_time that is
\* not later than the clock when it is called (as the start_time of a move
\* handle is) returns True only on a record whose is_busy is the one expected,
\* and never on a record stamped before start_time (the record it returns on
\* is the one the channel holds when it returns).
C15_AnchoredBusyWait ==
    (/\ ow.pc = "done" /\ ow.op = "wait_for_busy" /\ ow.res = "true"
     /\ ow.start_time <= ow.tc)
        => /\ ~(operating_state_data.stamp < ow.start_time)
           /\ operating_state_data.is_busy = ow.is_busy

\* C16: is_busy(start_time) returns True whenever the latest record is not
\* stamped after start_time, whatever its is_busy flag, and returns that flag
\* when the record is stamped after start_time.
C16_BusyUntilFreshRecord ==
    (ow.pc = "done" /\ ow.op = "is_busy")
        => IF operating_state_data.stamp > ow.start_time
           THEN ow.res = (IF operating_state_data.is_busy THEN "true" ELSE "false")
           ELSE ow.res = "true"

C16_Witness ==
    /\ ow.pc = "done" /\ ow.op = "is_busy" /\ ow.res = "true"
    /\ operating_state_data.seq > 0 /\ ~operating_state_data.is_busy
    /\ operating_state_data.stamp = ow.start_time /\ ow.start_time > 0

\* C17: whenever the goal of a move has been published the handle already
\* exists: it refers to the operating-state machine of the utils object and
\* its start_time is the clock value read before the publication, so it is
\* not later than the publication or than anything the device sends after it.
C17_HandleBeforePublish ==
    (ow.op = "move" /\ ow.pubs > 0)
        => /\ ow.handle = "operating_state_instance"
           /\ ow.start_time = ow.tc /\ ow.start_time <= now
           /\ ow.pubs = 1

C17_Witness ==
    /\ ow.pc = "done" /\ ow.op = "move" /\ ow.res = "handle" /\ ow.pubs = 1
    /\ ow.handle = "operating_state_instance" /\ ow.start_time = now /\ now > 0

\* C18: with several callers in wait_for_busy(False, start_time, timeout),
\* timeout > 0, a caller returns True whenever an idle record stamped after
\* its start_time is delivered after it cleared the event and before its
\* deadline, no busy record following: the clear of another waiter does not
\* make it miss the record.
C18_IndependentWaiters ==
    (/\ ow.pc = "done" /\ ow.op = "wait_for_busy" /\ ~ow.is_busy
     /\ ow.T > 0 /\ ros = "up" /\ ow.matched)
        => ow.res = "true"

\* ======================================================================
\* Properties of the registry (checked under SpecRegistry)
\* ======================================================================

\* C19: an add_<capability> for a capability whose accessors are already on
\* the instance raises and changes nothing: no handle is created, the lists
\* of subscribers and publishers, the data record, the event and the bound
\* accessors stay as the first registration left them.
C19_DuplicateRegistration ==
    [][(reg'.last.op = "add" /\ reg'.last.cap \in reg.bound)
          => reg' = [reg EXCEPT !.last = [op |-> "add", cap |-> reg'.last.cap,
                                          res |-> "raise"]]]_vars

C19_Witness ==
    /\ reg.last = [op |-> "add", cap |-> "operating_state", res |-> "raise"]
    /\ reg.gen["operating_state"] = 1 /\ reg.operating_state_instance = "class_instance"
    /\ Len(reg.subscribers) = 2 /\ Len(reg.publishers) = 1
    /\ reg.removes = 0

\* C20: however often remove_all runs (explicitly, or from __del__), no
\* subscription or publisher is passed to destroy_subscription /
\* destroy_publisher more than once.
C20_IdempotentTeardown ==
    \A i, j \in DOMAIN reg.destroyed : reg.destroyed[i] = reg.destroyed[j] => i = j

\* C29: an add_<capability> that raises leaves the registry and the instance
\* as they were before the call: no new subscription or publisher, no new
\* entry in the teardown lists, no new data record or event, no accessor
\* bound.
C29_AllOrNothing ==
    [][(reg'.last.op = "add" /\ reg'.last.res = "raise")
          => reg' = [reg EXCEPT !.last = reg'.last]]_vars

\* C30: after remove_all (called explicitly or from __del__) no accessor
\* bound by an add_<capability> is left on the instance: the capability set
\* is empty, so that every capability can be added again.
C30_TeardownUnbinds ==
    reg.last.op = "remove_all" => reg.bound = {}

\* ======================================================================
\* Properties of the reads of the record, of the commands and of the retries
\* ======================================================================

\* C21: what a reader derives from the record comes from one delivered
\* record, also when a callback runs during the read: the state and the stamp
\* operating_state(extra) returns are those of one record, and the is_homed
\* and is_busy that let home / unhome return True from a wait are those of
\* one record.  (When the call returns the channel holds the record that was
\* read last.)
C21_AtomicSnapshot ==
    /\ (ow.pc = "done" /\ ow.op = "operating_state" /\ ow.res = "pair")
          => (ow.val = operating_state_data.state /\ ow.ts = operating_state_data.stamp)
    /\ (ow.pc = "done" /\ ow.op \in {"home", "unhome"} /\ ow.res = "true" /\ ~ow.short)
          => (operating_state_data.is_homed = ow.expected_homed
              /\ ~operating_state_data.is_busy)

\* C22: enable, disable, home and unhome publish exactly one token on
\* state_command, once the opening test is past and whatever the number of
\* wake-ups and recursive calls and the outcome; wait_for_operating_state,
\* wait_for_busy and operating_state publish nothing.
C22_NoImplicitRetry ==
    /\ (ow.op \in {"enable", "disable", "home", "unhome"})
          => ow.pubs = (IF ow.pc \in {"short", "clear", "cmd"} THEN 0 ELSE 1)
    /\ (ow.op \in {"wait_for_operating_state", "wait_for_busy", "operating_state"})
          => ow.pubs = 0

C22_Witness ==
    /\ ow.pc = "done" /\ ow.op \in {"home", "unhome"} /\ ~ow.short
    /\ ow.blocked /\ ow.timeout < ow.T /\ ow.res = "false" /\ ow.pubs = 1
    /\ operating_state_data.seq = MaxOsSeq

C24_HomeResponseNotMissed ==
    (/\ ow.pc = "done" /\ ow.op \in {"home", "unhome"} /\ ~ow.short
     /\ ow.T > 0 /\ ros = "up" /\ ow.matched)
        => ow.res = "true"

Retry ==
    /\ ow.pc \in {"wf_clear", "wh_homed", "wh_busy", "wb_busy"}
    /\ w'[Observed].pc \in {"wf_entry", "wh_entry", "wb_entry"}

\* C26: the number of recursive calls of one wait_for_operating_state,
\* wait_for_homed or wait_for_busy is bounded whatever the stream of
\* notifications: every recursive call is given less time than the
\* invocation that makes it, by one clock unit at least, so that a call with
\* timeout T recurses at most T times before it returns.
C26_BoundedRetries ==
    [][Retry => w'[Observed].timeout < ow.timeout]_vars

\* C28: wait_for_busy without a start_time (start_time is the time of the
\* call) and wait_for_operating_state treat a notification that is pending
\* when they are called in the same way: called with the event set, a
\* timeout >= 0 and a record that satisfies the predicate (is_busy as
\* expected, resp. the power state as expected), and with no record stored
\* during the call and no shutdown, both return True without blocking.
C28_BusyWaitLikeStateWait ==
    (/\ ow.pc = "done" /\ ow.pending /\ ow.T >= 0 /\ ros = "up"
     /\ \/ /\ ow.op = "wait_for_operating_state"
           /\ StateIsExpected(operating_state_data, ow.expected_state)
        \/ /\ ow.op = "wait_for_busy" /\ ow.start_time = ow.tc
           /\ BusyIsExpected(operating_state_data, ow.is_busy))
        => (ow.res = "true" /\ ~ow.blocked)

\* C31: is_busy() called without a start_time takes the clock at the call
\* as start_time: it returns True whenever the record it finds is not
\* stamped later than the time of the call, whatever that record's is_busy
\* flag, and returns the record's flag only when the record is stamped later
\* than the time of the call.
C31_BusyWithoutStartTime ==
    (ow.pc = "done" /\ ow.op = "is_busy")
        => /\ ow.start_time = ow.tc
           /\ ~(operating_state_data.stamp > ow.tc) => ow.res = "true"
           /\ ow.res = "false"
                 => (operating_state_data.stamp > ow.tc /\ ~operating_state_data.is_busy)
           /\ operating_state_data.stamp > ow.tc
                 => ow.res = (IF operating_state_data.is_busy THEN "true" ELSE "false")

C31_Witness ==
    /\ ow.pc = "done" /\ ow.op = "is_busy" /\ ow.res = "true"
    /\ ow.tc > 0 /\ ow.start_time = ow.tc
    /\ operating_state_data.seq > 0 /\ ~operating_state_data.is_busy
    /\ operating_state_data.stamp = ow.tc

\* ======================================================================
\* Properties of measured_cp (checked under SpecCp)
\* ======================================================================

\* C27: measured_cp does not depend on the setpoint_cp channel: it does not
\* fail for want of it, and when it succeeds the pose it returns is the pose
\* measured_cp_data held when the accessor read it.
C27_MeasuredPose ==
    (m.pc = "done")
        => /\ m.res # "AttributeError"
           /\ m.res = "ok" => m.pose = m.measured

=============================================================================
